---- MODULE Spec2Model ----
(***************************************************************************)
(* Update-channel orchestration of the rust-analyzer VS Code extension:    *)
(* ensureProperExtensionVersion / tryDownloadNightlyExtension              *)
(* (src/unnamed/part_000) over Config and DateStorage                      *)
(* (src/editors/code/src/config.ts).                                       *)
(*                                                                         *)
(* Several editor windows (processes) share the extension directory and    *)
(* the globalState key/value store.  Inside one process the code is        *)
(* single-threaded: an invocation runs atomically from one `await` to the  *)
(* next, so every action below is one such segment.                        *)
(***************************************************************************)
EXTENDS Integers, Sequences, FiniteSets, TLC

\* ------------------------------------------------------------------ bounds
MaxInvocations == 2
MaxDay == 2
\* change events delivered in one run of the handler model
MaxChanges == 3

\* --------------------------------------------------------------- constants
HEURISTIC_NIGHTLY_RELEASE_PERIOD_IN_HOURS == 25
NIGHTLY_TAG == "nightly"

Stable == "stable"
Nightly == "nightly"
UpdatesChannel == {Stable, Nightly}

\* null Date / null string in the store
Null == -1
\* null / undefined string-valued settings
NullStr == "null"

MsPerHour == 1000 * 60 * 60
MsPerDay == 24 * MsPerHour

Procs == {1, 2}
\* invocations that can be in flight at once, in one process or in two
Threads == {1, 2}

\* package.json versions n.n.YYYYMMDD[-nightly], split at "." and "-"
StableVersion == <<"0", "2", "20200309">>
NightlyVersion == <<"0", "2", "20200309", "nightly">>

\* ------------------------------------------------------------------- inputs
Days == {0, MaxDay}
\* release dates the metadata fetch can report (ms since the epoch); the last
\* one carries a sub-second part
FetchedDates == {d * MsPerDay + 10 * MsPerHour : d \in Days}
                  \cup {MaxDay * MsPerDay + 10 * MsPerHour + 250}
\* values `new Date` can yield
NowDates == {d * MsPerDay + 12 * MsPerHour : d \in Days}
TimeZones == {0}

\* inputs of diffInHours: wall-clock days and times of day, and the offsets of
\* local time from UTC
ClockDays == 0..MaxDay
ClockTimes == {MsPerHour \div 2, 12 * MsPerHour, 23 * MsPerHour + MsPerHour \div 2}
ClockZones == {0 - 5 * MsPerHour, 0, 2 * MsPerHour}

\* Config.rootSection
rootSection == "rust-analyzer"

\* setting keys a change event can name, split at "."
ChangedKeys ==
    { <<rootSection, "serverPath">>,
      <<rootSection, "cargoFeatures", "allFeatures">>,
      <<rootSection, "cargo-watch", "enable">>,
      <<rootSection, "highlighting", "semanticTokens">>,
      <<rootSection, "inlayHints", "typeHints">>,
      <<rootSection, "updates", "channel">>,
      <<rootSection, "updates", "askBeforeDownload">>,
      <<rootSection, "highlightingOn">>,
      <<"editor", "fontSize">> }

EnvProfiles ==
    { [dbg |-> NullStr, serverPath |-> NullStr, arch |-> "x64"],
      [dbg |-> NullStr, serverPath |-> "", arch |-> "arm64"],
      [dbg |-> "/dbg/ra", serverPath |-> NullStr, arch |-> "x64"],
      [dbg |-> NullStr, serverPath |-> "~/ra", arch |-> "x64"] }

VARIABLES
    installedVersion,   \* package.json version of the extension on disk
    globalState,        \* "installed-nightly-extension-release-date": string or Null
    cfg,                \* Config.cfg: the snapshot of the settings last taken
    settings,           \* the settings held by the host
    watch,              \* per handler: one run of Config.onConfigChange
    changes,            \* change events delivered so far
    calc,               \* one evaluation of diffInHours
    raLspDebug,         \* process.env.__RA_LSP_SERVER_DEBUG
    arch,               \* process.arch (platform is linux)
    tz,                 \* local time zone offset, ms
    loaded,             \* per process: Config.packageJsonVersion
    entered,            \* per process: the notReentrant flag
    inv,                \* per thread: one invocation of ensureProperExtensionVersion
    started             \* invocations started so far

vars == <<installedVersion, globalState, cfg, settings, watch, changes, calc, raLspDebug,
          arch, tz, loaded, entered, inv, started>>

\* what the update orchestration leaves alone
aside == <<settings, watch, changes, calc>>

env == <<raLspDebug, arch, tz>>

\* --------------------------------------------------------- pure functions
Last(s) == s[Len(s)]

\* Config.extensionReleaseTag: "nightly" or YYYY-MM-DD
extensionReleaseTag(version) ==
    IF Last(version) = NIGHTLY_TAG THEN NIGHTLY_TAG ELSE version[3]

\* Config.installedExtensionUpdateChannel
installedExtensionUpdateChannel(version) ==
    IF extensionReleaseTag(version) = NIGHTLY_TAG THEN Nightly ELSE Stable

Truthy(s) == s \notin {NullStr, ""}

\* Config.prebuiltServerFileName on linux
prebuiltServerFileName(a) ==
    IF a \in {"arm", "arm64"} THEN NullStr ELSE "rust-analyzer-linux"

\* Config.serverSource, reduced to its type
serverSourceType(dbg, serverPath, a) ==
    LET path == IF dbg # NullStr THEN dbg ELSE serverPath
    IN  IF Truthy(path) THEN "ExplicitPath"
        ELSE IF ~Truthy(prebuiltServerFileName(a)) THEN NullStr
        ELSE "GithubRelease"

\* Date.prototype.toString keeps whole seconds; the string is its second count
DateToString(d) == d \div 1000
\* new Date(dateStr)
ParseDate(s) == s * 1000

\* DateStorage.get
DateStorageGet(store) == IF store # Null THEN ParseDate(store) ELSE Null
\* DateStorage.set: the value written
DateStorageValue(date) == IF date # Null THEN DateToString(date) ELSE Null

\* Date.UTC(d.getUTCFullYear(), d.getUTCMonth(), d.getUTCDate())
UtcOfUtcDay(d, zone) == (d \div MsPerDay) * MsPerDay

\* Date.UTC(d.getFullYear(), d.getMonth(), d.getDate()): local calendar day
UtcOfLocalDay(d, zone) == ((d + zone) \div MsPerDay) * MsPerDay

diffInHours(a, b, zone) ==
    (UtcOfLocalDay(a, zone) - UtcOfLocalDay(b, zone)) \div MsPerHour

\* line 56
hoursSinceLastUpdate(currentExtReleaseDate, dateNow, zone) ==
    diffInHours(currentExtReleaseDate, dateNow, zone)

\* --------------------------------------------------------------- the state
Terminal == {"idle", "done", "threw", "restarted", "killed"}
AskPcs == {"ask_stable", "ask_nightly", "ask_outdated"}
\* await points inside tryDownloadNightlyExtension
ProcedurePcs == {"fetch", "download", "install", "set_date", "unlink", "reload"}
\* line 36 is awaited
StoreReloadPc == "reload_store"

IdleInv ==
    [pc |-> "idle", proc |-> 1, source |-> NullStr, cur |-> Stable, des |-> Stable,
     date0 |-> Null, now |-> Null, guard |-> FALSE, rel |-> Null,
     events |-> <<>>, failed |-> NullStr, log |-> <<>>,
     entryVersion |-> <<>>, entryDate |-> Null, leftAsFound |-> TRUE]

\* one run of onConfigChange not yet started
IdleWatch == [pc |-> "idle", proc |-> 1, key |-> <<>>, opt |-> <<>>, events |-> <<>>]

IdleCalc == [a |-> 0, b |-> 0, dayA |-> 0, dayB |-> 0, result |-> Null]

WatchTerminal == {"idle", "done", "restarted", "killed"}

\* overlapping runs of onConfigChange
Handlers == {1, 2}

\* the extension as constructed, whatever the time zone
Boot ==
    /\ installedVersion \in {StableVersion, NightlyVersion}
    /\ globalState \in
         IF installedVersion = NightlyVersion
         THEN {DateStorageValue(d) : d \in FetchedDates}
         ELSE {Null}
    /\ \E e \in EnvProfiles, ch \in UpdatesChannel, ask \in BOOLEAN :
         /\ cfg = [serverPath |-> e.serverPath, channel |-> ch,
                   askBeforeDownload |-> ask, other |-> {}]
         /\ raLspDebug = e.dbg
         /\ arch = e.arch
    /\ settings = cfg
    /\ watch = [h \in Handlers |-> IdleWatch]
    /\ changes = 0
    /\ calc = IdleCalc
    /\ loaded = [p \in Procs |-> installedVersion]
    /\ entered = [p \in Procs |-> FALSE]
    /\ inv = [t \in Threads |-> IdleInv]
    /\ started = 0

Init == Boot /\ tz \in TimeZones

\* ----------------------------------------------------------------- helpers
ProcOf(t) == inv[t].proc

Set(t, r) == inv' = [inv EXCEPT ![t] = r]

Emit(r, e) == [r EXCEPT !.events = Append(@, e)]

At(r, pc) == [r EXCEPT !.pc = pc]

\* the snapshot taken at the entry of tryDownloadNightlyExtension is dropped
Forget(r) == [r EXCEPT !.entryVersion = <<>>, !.entryDate = Null]

Occurred(r, e) == \E k \in 1..Len(r.events) : r.events[k] = e

\* ------------------------------------------------ util.ts (not in src/)
\* notReentrant: a call made while an earlier one is in flight is turned away;
\* whether the caller sees an exception or a plain return is left open.
NotReentrantRejects(t, r) ==
    /\ \E outcome \in {"done", "threw"} : Set(t, At(Emit(r, "rejected"), outcome))
    /\ UNCHANGED entered

\* notReentrant lets the call in: the body of tryDownloadNightlyExtension runs
\* up to the await of fetchArtifactReleaseInfo (lines 116-118).
NotReentrantAdmits(t, r, guard) ==
    /\ Set(t, [At(Emit(r, "fetch"), "fetch") EXCEPT
                  !.guard = guard,
                  !.entryVersion = installedVersion,
                  !.entryDate = globalState'])
    /\ entered' = [entered EXCEPT ![r.proc] = TRUE]

\* a wrapper that never looks at its flag
notReentrantUnguarded(t, r, guard) == NotReentrantAdmits(t, r, guard)

notReentrant(t, r, guard) ==
    IF entered[r.proc]
    THEN NotReentrantRejects(t, r)
    ELSE NotReentrantAdmits(t, r, guard)

\* the wrapper's flag is cleared when the wrapped call settles
Release(t) == entered' = [entered EXCEPT ![ProcOf(t)] = FALSE]

\* --------------------------------------------- tryDownloadNightlyExtension
tryDownloadNightlyExtension(t, r, guard) == notReentrant(t, r, guard)

\* Config.nightlyVsixSource (createGithubReleaseSource)
nightlyVsixSource ==
    [type |-> "GithubRelease", file |-> "rust-analyzer.vsix", tag |-> NIGHTLY_TAG,
     repo |-> [name |-> "rust-analyzer", owner |-> "rust-analyzer"]]

\* a handler that passes the error on to the caller instead of logging it
CatchDownloadErrorRethrows(t, r, step) ==
    /\ Set(t, [Forget(At(r, "threw")) EXCEPT !.failed = step])
    /\ Release(t)

\* a handler that logs and then reloads the window all the same
CatchDownloadErrorReloads(t, r, step) ==
    /\ Set(t, [At(Emit(Emit(r, "log_download_error"), "reload"), "reload") EXCEPT
                  !.failed = step,
                  !.log = <<"nightly extension", nightlyVsixSource.repo.name>>])
    /\ UNCHANGED entered

\* catch (err) { log.downloadError(err, "nightly extension", repo.name) }
CatchDownloadError(t, r, step) ==
    /\ Set(t, [Forget(At(Emit(r, "log_download_error"), "done")) EXCEPT
                  !.failed = step,
                  !.log = <<"nightly extension", nightlyVsixSource.repo.name>>,
                  !.leftAsFound = /\ installedVersion' = r.entryVersion
                                  /\ globalState' = r.entryDate])
    /\ Release(t)

\* --------------------------------------- askToDownloadProperExtensionVersion
\* line 88 left out: the prompt is shown whatever the setting
askToDownloadRegardless(t, r, askPc, Proceed) ==
    /\ Set(t, At(Emit(r, "prompt"), askPc))
    /\ UNCHANGED entered

\* Lines 87-103.  With askBeforeDownload off the answer is `true` at once and
\* the caller goes on (Proceed); otherwise the prompt is shown and awaited.
askToDownloadProperExtensionVersion(t, r, askPc, Proceed) ==
    IF ~cfg.askBeforeDownload
    THEN Proceed
    ELSE /\ Set(t, At(Emit(r, "prompt"), askPc))
         /\ UNCHANGED entered

\* line 35 left out: the window is reloaded without the reinstall
ToReloadWithoutReinstall(t, r) ==
    /\ Set(t, At(Emit(r, "reload"), StoreReloadPc))
    /\ UNCHANGED entered

\* line 35 is awaited next
ToReinstall(t, r) ==
    /\ Set(t, At(Emit(r, "reinstall"), "reinstall"))
    /\ UNCHANGED entered

\* ------------------------------------------ ensureProperExtensionVersion
\* lines 62-69, after hoursSinceLastUpdate was computed
StalenessCheck(t, r) ==
    IF hoursSinceLastUpdate(r.date0, r.now, tz) < HEURISTIC_NIGHTLY_RELEASE_PERIOD_IN_HOURS
    THEN Set(t, At(r, "done")) /\ UNCHANGED entered
    ELSE askToDownloadProperExtensionVersion(t, r, "ask_outdated",
             tryDownloadNightlyExtension(t, r, TRUE))

\* a missing release date taken for "nothing to do"
MissingReleaseDateIgnored(t, r) ==
    /\ Set(t, At(r, "done"))
    /\ UNCHANGED entered

\* lines 45-53: the release date is missing
MissingReleaseDate(t, r) ==
    /\ Set(t, At(Emit(r, "error_message"), "threw"))
    /\ UNCHANGED entered

\* lines 29-85 for a build loaded as Nightly (no await before line 33 / 65)
NightlyBranch(t, r) ==
    IF r.des = Stable
    THEN askToDownloadProperExtensionVersion(t, r, "ask_stable", ToReinstall(t, r))
    ELSE LET date == DateStorageGet(globalState) IN
         IF date = Null
         THEN MissingReleaseDate(t, r)
         ELSE \E dateNow \in NowDates :
                StalenessCheck(t, [r EXCEPT !.date0 = date, !.now = dateNow])

\* line 31 left out: Stable to Stable falls through to the prompt of line 40
StableBranchWithoutReturn(t, r) ==
    askToDownloadProperExtensionVersion(t, r, "ask_nightly",
        tryDownloadNightlyExtension(t, r, FALSE))

\* lines 29-43 for a build loaded as Stable, after the await of line 26
StableBranch(t, r) ==
    IF r.des = Stable
    THEN Set(t, At(r, "done")) /\ UNCHANGED entered
    ELSE askToDownloadProperExtensionVersion(t, r, "ask_nightly",
             tryDownloadNightlyExtension(t, r, FALSE))

\* line 19 comparing with the wrong source type
IsManualBuildWrongType(source) == source = "GithubRelease"

\* line 19: the user has built the server from sources
IsManualBuild(source) == source = "ExplicitPath"

\* Lines 17-27: a call of ensureProperExtensionVersion up to its first await.
\* The call takes the first record never used or, all being used, the first
\* one whose invocation is over; the windows being alike, the first call of
\* all is made in window 1.
Invoke(t) ==
    /\ inv[t].pc \in Terminal
    /\ \A u \in Threads : u < t => inv[u].pc \notin Terminal \/ inv[t].pc = "idle"
    /\ inv[t].pc # "idle" => \A u \in Threads : inv[u].pc # "idle"
    /\ \A u \in Threads : u < t => inv[u].pc # "idle"
    /\ started < MaxInvocations
    /\ started' = started + 1
    /\ UNCHANGED <<installedVersion, globalState, cfg, env, aside, loaded>>
    /\ \E p \in Procs :
       /\ started = 0 => p = 1
       /\ LET currentUpdChannel == installedExtensionUpdateChannel(loaded[p])
              r == [IdleInv EXCEPT
                       !.proc = p,
                       !.cur = currentUpdChannel,
                       !.des = cfg.channel,
                       !.source = serverSourceType(raLspDebug, cfg.serverPath, arch)]
          IN  IF IsManualBuild(r.source)
              THEN Set(t, At(r, "done")) /\ UNCHANGED entered
              ELSE IF currentUpdChannel = Stable
              THEN Set(t, At(Emit(r, "clear"), "clear_date")) /\ UNCHANGED entered
              ELSE NightlyBranch(t, r)

\* line 26 settling without the store having been written
ClearDateNotWritten(t) ==
    /\ inv[t].pc = "clear_date"
    /\ UNCHANGED globalState
    /\ StableBranch(t, Emit(inv[t], "cleared"))
    /\ UNCHANGED <<installedVersion, cfg, env, aside, loaded, started>>

\* Line 26 settles: installedNightlyExtensionReleaseDate.set(null), or the
\* store rejects the update and the error leaves ensureProperExtensionVersion.
ClearDate(t) ==
    /\ inv[t].pc = "clear_date"
    /\ \/ /\ globalState' = DateStorageValue(Null)
          /\ StableBranch(t, Emit(inv[t], "cleared"))
       \/ /\ UNCHANGED <<globalState, entered>>
          /\ Set(t, [At(inv[t], "threw") EXCEPT !.failed = "clear"])
    /\ UNCHANGED <<installedVersion, cfg, env, aside, loaded, started>>

\* anything but an explicit "Cancel" counts as consent
UserAcceptedUnlessCancel(userResponse) == userResponse # "Cancel"

\* line 102
UserAccepted(userResponse) == userResponse = "Download now"

\* The prompt of line 33, 40 or 65 is answered or dismissed (lines 97-102);
\* the record keeps what the user did.
Answer(t) ==
    /\ inv[t].pc \in AskPcs
    /\ UNCHANGED <<installedVersion, globalState, cfg, env, aside, loaded, started>>
    /\ \E userResponse \in {"Download now", "Cancel", "undefined"} :
         LET r == Emit(inv[t], IF userResponse = "Download now"
                               THEN "accepted" ELSE "declined")
         IN  IF ~UserAccepted(userResponse)
             THEN Set(t, At(r, "done")) /\ UNCHANGED entered
             ELSE IF r.pc = "ask_stable" THEN ToReinstall(t, r)
             ELSE tryDownloadNightlyExtension(t, r, r.pc = "ask_outdated")

\* Line 35 settles: vscodeReinstallExtension put the marketplace (stable) build
\* on disk, or failed and the error leaves ensureProperExtensionVersion.
Reinstall(t) ==
    /\ inv[t].pc = "reinstall"
    /\ \/ /\ installedVersion' = StableVersion
          /\ Set(t, At(Emit(Emit(inv[t], "reinstalled"), "reload"), StoreReloadPc))
       \/ /\ UNCHANGED installedVersion
          /\ Set(t, [At(inv[t], "threw") EXCEPT !.failed = "reinstall"])
    /\ UNCHANGED <<globalState, cfg, env, aside, loaded, entered, started>>

\* The window is reloaded: the process starts afresh with the build found on
\* disk; its other invocations die with it.
RestartProcess(p, by) ==
    /\ loaded' = [loaded EXCEPT ![p] = installedVersion]
    /\ entered' = [entered EXCEPT ![p] = FALSE]
    /\ inv' = [t \in Threads |->
                 IF t = by THEN Forget(At(Emit(inv[t], "restart"), "restarted"))
                 ELSE IF ProcOf(t) = p /\ inv[t].pc \notin Terminal
                 THEN Forget(At(inv[t], "killed"))
                 ELSE inv[t]]

\* Lines 36 and 130: vscodeReloadWindow, which never returns.
ReloadWindow(t) ==
    /\ inv[t].pc \in {"reload", StoreReloadPc}
    /\ RestartProcess(ProcOf(t), t)
    /\ UNCHANGED <<installedVersion, globalState, cfg, env, aside, started>>

\* the guard without the assert of lines 70-73
shouldDownloadUnasserted(guard, currentExtReleaseDate, store, releaseDate) ==
    IF ~guard THEN "true"
    ELSE IF releaseDate = currentExtReleaseDate THEN "false"
    ELSE "true"

\* The shouldDownload argument: lines 69-84, or the default of line 114.
\* "throw" is the failed assert of line 70.
shouldDownload(guard, currentExtReleaseDate, store, releaseDate) ==
    IF ~guard THEN "true"
    ELSE IF currentExtReleaseDate # DateStorageGet(store) THEN "throw"
    ELSE IF releaseDate = currentExtReleaseDate THEN "false"
    ELSE "true"

\* Lines 118-122: fetchArtifactReleaseInfo settles, shouldDownload decides.
Fetch(t) ==
    /\ inv[t].pc = "fetch"
    /\ UNCHANGED <<installedVersion, globalState, cfg, env, aside, loaded, started>>
    /\ \/ CatchDownloadError(t, inv[t], "fetch")
       \/ \E releaseDate \in FetchedDates :
            LET r == [Emit(inv[t], "fetched") EXCEPT !.rel = releaseDate]
                verdict == shouldDownload(r.guard, r.date0, globalState, releaseDate)
            IN  CASE verdict = "throw" ->
                       CatchDownloadError(t, Emit(r, "assert_failed"), "guard")
                  [] verdict = "false" ->
                       /\ Set(t, Forget(At(Emit(r, "info_message"), "done")))
                       /\ Release(t)
                  [] OTHER ->
                       /\ Set(t, At(Emit(r, "download"), "download"))
                       /\ UNCHANGED entered

\* Line 122 settles: downloadArtifactWithProgressUi.
Download(t) ==
    /\ inv[t].pc = "download"
    /\ UNCHANGED <<installedVersion, globalState, cfg, env, aside, loaded, started>>
    /\ \/ CatchDownloadError(t, inv[t], "download")
       \/ /\ Set(t, At(Emit(Emit(inv[t], "downloaded"), "install"), "install"))
          /\ UNCHANGED entered

\* Line 126 settles: vscodeInstallExtensionFromVsix put the nightly on disk.
Install(t) ==
    /\ inv[t].pc = "install"
    /\ UNCHANGED <<globalState, cfg, env, aside, loaded, started>>
    /\ \/ /\ UNCHANGED installedVersion
          /\ CatchDownloadError(t, inv[t], "install")
       \/ /\ installedVersion' = NightlyVersion
          /\ Set(t, At(Emit(Emit(inv[t], "installed"), "write"), "set_date"))
          /\ UNCHANGED entered

\* Line 127 settles: installedNightlyExtensionReleaseDate.set(releaseDate).
SetDate(t) ==
    /\ inv[t].pc = "set_date"
    /\ UNCHANGED <<installedVersion, cfg, env, aside, loaded, started>>
    /\ \/ /\ UNCHANGED globalState
          /\ CatchDownloadError(t, inv[t], "write")
       \/ /\ globalState' = DateStorageValue(inv[t].rel)
          /\ Set(t, At(Emit(Emit(inv[t], "written"), "unlink"), "unlink"))
          /\ UNCHANGED entered

\* Line 128 settles: fs.unlink(vsixPath); line 130 is awaited next.
Unlink(t) ==
    /\ inv[t].pc = "unlink"
    /\ UNCHANGED <<installedVersion, globalState, cfg, env, aside, loaded, started>>
    /\ \/ CatchDownloadError(t, inv[t], "unlink")
       \/ /\ Set(t, At(Emit(Emit(inv[t], "unlinked"), "reload"), "reload"))
          /\ UNCHANGED entered

\* ---------------------------------------------------------- environment
\* The user edits one of the update settings; every window's onConfigChange
\* takes the new snapshot and, the key being none of requiresReloadOpts, returns.
ConfigChange ==
    /\ \/ cfg' = [cfg EXCEPT !.channel = IF @ = Stable THEN Nightly ELSE Stable]
       \/ cfg' = [cfg EXCEPT !.askBeforeDownload = ~@]
    /\ settings' = cfg'
    /\ UNCHANGED <<installedVersion, globalState, env, watch, changes, calc, loaded, entered, inv, started>>

\* The user reloads or reopens a window that has no invocation in flight and
\* whose loaded build is not the one on disk (any other reload changes nothing).
UserReload(p) ==
    /\ \A t \in Threads : ProcOf(t) = p => inv[t].pc \in Terminal
    /\ loaded[p] # installedVersion
    /\ RestartProcess(p, 0)
    /\ UNCHANGED <<installedVersion, globalState, cfg, env, aside, started>>

Next ==
    \/ \E t \in Threads : Invoke(t)
    \/ \E t \in Threads : ClearDate(t)
    \/ \E t \in Threads : Answer(t)
    \/ \E t \in Threads : Reinstall(t)
    \/ \E t \in Threads : ReloadWindow(t)
    \/ \E t \in Threads : Fetch(t)
    \/ \E t \in Threads : Download(t)
    \/ \E t \in Threads : Install(t)
    \/ \E t \in Threads : SetDate(t)
    \/ \E t \in Threads : Unlink(t)
    \/ \E p \in Procs : UserReload(p)
    \/ ConfigChange

Spec == Init /\ [][Next]_vars

\* ------------------------------------------------- Config.onConfigChange
IsPrefix(s, t) == Len(s) <= Len(t) /\ SubSeq(t, 1, Len(s)) = s

\* a section counted as affected only when it is the very key that changed
affectsConfigurationExact(changed, section) == changed = section

\* event.affectsConfiguration(section): the changed key is the section, lies
\* inside it or contains it
affectsConfiguration(changed, section) ==
    IsPrefix(section, changed) \/ IsPrefix(changed, section)

\* lines 37-44, each option behind the root section
requiresReloadOpts ==
    << <<rootSection, "serverPath">>,
       <<rootSection, "cargoFeatures">>,
       <<rootSection, "cargo-watch">>,
       <<rootSection, "highlighting", "semanticTokens">>,
       <<rootSection, "inlayHints">> >>

\* lines 84-86: the first option the event affects, <<>> for undefined
requiresReloadOpt(changed) ==
    LET hits == {i \in 1..Len(requiresReloadOpts) :
                   affectsConfiguration(changed, requiresReloadOpts[i])}
    IN  IF hits = {} THEN <<>>
        ELSE requiresReloadOpts[CHOOSE i \in hits : \A j \in hits : i <= j]

\* lines 71-72: this.cfg = vscode.workspace.getConfiguration(rootSection)
refreshConfig == cfg' = settings'

\* the host's settings after the user has edited one key
EditSetting(s, key) ==
    CASE key = <<rootSection, "serverPath">> ->
           [s EXCEPT !.serverPath = IF @ = "~/ra" THEN NullStr ELSE "~/ra"]
      [] key = <<rootSection, "updates", "channel">> ->
           [s EXCEPT !.channel = IF @ = Stable THEN Nightly ELSE Stable]
      [] key = <<rootSection, "updates", "askBeforeDownload">> ->
           [s EXCEPT !.askBeforeDownload = ~@]
      [] OTHER ->
           [s EXCEPT !.other = IF key \in @ THEN @ \ {key} ELSE @ \cup {key}]

\* lines 81-93: onConfigChange up to its await, or to its return of line 88
onConfigChange(h, p, key) ==
    /\ refreshConfig
    /\ LET opt == requiresReloadOpt(key)
           w == [IdleWatch EXCEPT !.proc = p, !.key = key, !.opt = opt,
                                  !.events = <<"refresh">>]
       IN  IF opt = <<>>
           THEN watch' = [watch EXCEPT ![h] = [w EXCEPT !.pc = "done"]]
           ELSE watch' = [watch EXCEPT ![h] =
                            [w EXCEPT !.pc = "ask_reload",
                                      !.events = Append(@, "prompt")]]

\* A setting is edited and onDidChangeConfiguration reaches a window; the run
\* takes the first handler record that is free.
SettingsChanged(h) ==
    /\ watch[h].pc \in WatchTerminal
    /\ \A g \in Handlers : g < h => watch[g].pc \notin WatchTerminal
    /\ changes < MaxChanges
    /\ changes' = changes + 1
    /\ \E key \in ChangedKeys, p \in Procs :
         /\ settings' = EditSetting(settings, key)
         /\ onConfigChange(h, p, key)
    /\ UNCHANGED <<installedVersion, globalState, calc, env, loaded, entered,
                   inv, started>>

\* Lines 90-97: the message of line 90 is answered or dismissed.
AnswerReload(h) ==
    /\ watch[h].pc = "ask_reload"
    /\ \E userResponse \in {"Reload now", "undefined"} :
         IF userResponse = "Reload now"
         THEN /\ RestartProcess(watch[h].proc, 0)
              /\ watch' = [g \in Handlers |->
                             IF g = h
                             THEN [watch[h] EXCEPT
                                     !.pc = "restarted",
                                     !.events = @ \o <<"reload_now", "restart">>]
                             ELSE IF watch[g].proc = watch[h].proc
                                     /\ watch[g].pc \notin WatchTerminal
                             THEN [watch[g] EXCEPT !.pc = "killed"]
                             ELSE watch[g]]
         ELSE /\ watch' = [watch EXCEPT ![h] =
                             [@ EXCEPT !.pc = "done",
                                       !.events = Append(@, "dismissed")]]
              /\ UNCHANGED <<loaded, entered, inv>>
    /\ UNCHANGED <<installedVersion, globalState, cfg, settings, changes, calc, env,
                   started>>

\* one window pair on the stable build with the default settings
InitConfig ==
    /\ Init
    /\ installedVersion = StableVersion
    /\ cfg = [serverPath |-> NullStr, channel |-> Stable,
              askBeforeDownload |-> TRUE, other |-> {}]
    /\ raLspDebug = NullStr

NextConfig ==
    \/ \E h \in Handlers : SettingsChanged(h)
    \/ \E h \in Handlers : AnswerReload(h)

SpecConfig == InitConfig /\ [][NextConfig]_vars

\* ------------------------------------------------------------ diffInHours
\* the instant at which a clock `zone` ms ahead of UTC shows day and time
Instant(day, time, zone) == day * MsPerDay + time - zone

\* diffInHours is applied to two instants, each given by what the local clock
\* shows
Compute ==
    /\ \E dayA, dayB \in ClockDays, timeA, timeB \in ClockTimes :
         LET a == Instant(dayA, timeA, tz)
             b == Instant(dayB, timeB, tz)
         IN  calc' = [a |-> a, b |-> b, dayA |-> dayA, dayB |-> dayB,
                      result |-> diffInHours(a, b, tz)]
    /\ UNCHANGED <<installedVersion, globalState, cfg, settings, watch, changes,
                   env, loaded, entered, inv, started>>

\* one window on the stable build, in any of the time zones
InitDiff ==
    /\ Boot
    /\ tz \in ClockZones
    /\ installedVersion = StableVersion
    /\ cfg.channel = Stable /\ cfg.askBeforeDownload
    /\ cfg.serverPath = NullStr /\ raLspDebug = NullStr

NextDiff == Compute

SpecDiff == InitDiff /\ [][NextDiff]_vars

\* ================================================================ claims
Started(r) == r.pc # "idle"

Explicit(r) == r.source = "ExplicitPath"

\* the invocation found the build loaded as `cur` and the setting `des`
Path(r, cur, des) == Started(r) /\ ~Explicit(r) /\ r.cur = cur /\ r.des = des

\* it read the persisted release date and the clock (lines 45-56)
Timed(r) == r.date0 # Null /\ r.now # Null

\* hours from the persisted release date to now, in whole calendar days
ElapsedHours(r) == diffInHours(r.now, r.date0, tz)

\* the catch block of tryDownloadNightlyExtension ran
Caught(r) == Occurred(r, "log_download_error")

NetworkCall(r) == Occurred(r, "fetch") \/ Occurred(r, "download")

\* nothing beyond reading state: no prompt, call, install, write or restart
Quiet(r) ==
    /\ ~Occurred(r, "prompt")
    /\ ~NetworkCall(r)
    /\ ~Occurred(r, "install")
    /\ ~Occurred(r, "reinstall")
    /\ ~Occurred(r, "write")
    /\ ~Occurred(r, "restart")

\* C1: with a non-explicit server source, installed and desired channel
\* Nightly and a persisted release date at least 25 hours (in whole calendar
\* days) before now, the invocation asks the user (or, prompts being off,
\* goes ahead) and starts the fetch+install procedure with the staleness guard.
C1_StaleNightlyAsksToUpdate ==
    \A t \in Threads :
        LET r == inv[t] IN
        (Path(r, Nightly, Nightly) /\ Timed(r)
            /\ ElapsedHours(r) >= HEURISTIC_NIGHTLY_RELEASE_PERIOD_IN_HOURS)
        => \/ Occurred(r, "prompt")
           \/ Occurred(r, "fetch") /\ r.guard
           \/ Occurred(r, "rejected")

\* C2: in every reachable state the persisted release date is present if and
\* only if the build installed on disk is a nightly.
C2_ReleaseDateIffNightly ==
    (globalState # Null) <=> (installedExtensionUpdateChannel(installedVersion) = Nightly)

\* C3: within one process at most one invocation is inside the body of
\* tryDownloadNightlyExtension, and a call that was turned away has performed
\* no fetch, download, install, persisted write or restart.
C3_NoReentrancy ==
    /\ \A t, u \in Threads :
         (t # u /\ inv[t].proc = inv[u].proc)
         => ~(inv[t].pc \in ProcedurePcs /\ inv[u].pc \in ProcedurePcs)
    /\ \A t \in Threads :
         Occurred(inv[t], "rejected")
         => /\ ~NetworkCall(inv[t])
            /\ ~Occurred(inv[t], "install")
            /\ ~Occurred(inv[t], "write")
            /\ ~Occurred(inv[t], "restart")

\* a call was turned away while another invocation of the same process was
\* inside the procedure
C3_Witness ==
    \E t, u \in Threads :
        /\ t # u
        /\ inv[t].proc = inv[u].proc
        /\ Occurred(inv[t], "rejected")
        /\ inv[u].pc \in ProcedurePcs

C5_RaceIsFatal ==
    \A t \in Threads :
        (Occurred(inv[t], "assert_failed") /\ inv[t].pc \in Terminal)
        => inv[t].pc = "threw"

\* C6: Nightly to Nightly, elapsed time at or above the threshold, the user
\* not declining and no step failing: unless a release with another date was
\* fetched, the invocation ends with the informational message and without
\* download, install, write or restart.
C6_UpToDateNightlyIsReported ==
    \A t \in Threads :
        LET r == inv[t] IN
        (Path(r, Nightly, Nightly) /\ Timed(r)
            /\ ElapsedHours(r) >= HEURISTIC_NIGHTLY_RELEASE_PERIOD_IN_HOURS
            /\ r.pc = "done"
            /\ ~Occurred(r, "declined") /\ ~Occurred(r, "rejected")
            /\ r.failed = NullStr
            /\ r.rel \in {Null, r.date0})
        => /\ Occurred(r, "info_message")
           /\ ~Occurred(r, "download")
           /\ ~Occurred(r, "install")
           /\ ~Occurred(r, "write")

C8_ExplicitPathNoAction ==
    \A t \in Threads :
        (Started(inv[t]) /\ Explicit(inv[t]))
        => inv[t].pc = "done" /\ inv[t].events = <<>>

\* an explicit-path invocation on a nightly build with a date persisted and
\* the stable channel desired
C8_Witness ==
    \E t \in Threads :
        /\ Explicit(inv[t])
        /\ inv[t].pc = "done"
        /\ inv[t].cur = Nightly
        /\ inv[t].des = Stable
        /\ globalState # Null

\* C9: Stable to Stable triggers no network call, prompt, install or restart.
C9_StableToStableQuiet ==
    \A t \in Threads : Path(inv[t], Stable, Stable) => Quiet(inv[t])

\* a Stable to Stable invocation has returned, prompts being off
C9_Witness ==
    \E t \in Threads :
        /\ Path(inv[t], Stable, Stable)
        /\ inv[t].pc = "done"
        /\ ~cfg.askBeforeDownload

\* C10: Nightly to Nightly with less than 25 hours from the persisted release
\* date to now triggers no network call, prompt, install, write or restart.
C10_FreshNightlyQuiet ==
    \A t \in Threads :
        LET r == inv[t] IN
        (Path(r, Nightly, Nightly) /\ Timed(r)
            /\ ElapsedHours(r) < HEURISTIC_NIGHTLY_RELEASE_PERIOD_IN_HOURS)
        => Quiet(r)

\* position of the first occurrence of an event, 0 when it did not occur
Index(r, e) ==
    IF Occurred(r, e)
    THEN CHOOSE k \in 1..Len(r.events) :
           r.events[k] = e /\ \A j \in 1..(k - 1) : r.events[j] # e
    ELSE 0

Before(r, e, f) == Occurred(r, e) /\ Occurred(r, f) /\ Index(r, e) < Index(r, f)

\* C11: a prompt that is declined or dismissed ends the invocation with a
\* normal return and nothing after it: no network call, install, reinstall,
\* write of a release date or restart, and no error.
C11_DeclineIsSilentNoOp ==
    \A t \in Threads :
        LET r == inv[t] IN
        Occurred(r, "declined")
        => /\ r.pc = "done"
           /\ r.events[Len(r.events)] = "declined"
           /\ r.events[Len(r.events) - 1] = "prompt"
           /\ ~NetworkCall(r)
           /\ ~Occurred(r, "install")
           /\ ~Occurred(r, "reinstall")
           /\ ~Occurred(r, "write")
           /\ ~Occurred(r, "restart")
           /\ ~Occurred(r, "error_message")
           /\ r.failed = NullStr

\* the prompt of the staleness path (line 65) was declined
C11_Witness ==
    \E t \in Threads :
        /\ Path(inv[t], Nightly, Nightly)
        /\ Timed(inv[t])
        /\ Occurred(inv[t], "declined")

\* C12: Nightly to Nightly with no persisted release date ends with the error
\* notification and an error thrown to the caller, and with nothing else: no
\* prompt, network call, install, write or restart.
C12_MissingDateIsFatal ==
    \A t \in Threads :
        LET r == inv[t] IN
        (Path(r, Nightly, Nightly) /\ r.date0 = Null)
        => r.pc = "threw" /\ r.events = <<"error_message">>

\* a nightly build was started without a persisted date, and the date is
\* still missing
C12_Witness ==
    \E t \in Threads :
        /\ Path(inv[t], Nightly, Nightly)
        /\ inv[t].pc = "threw"
        /\ globalState = Null

\* C13: Nightly to Stable never fetches or downloads a nightly; the stable
\* build is reinstalled once the user has accepted (or prompts are off), and
\* a restart comes only after the reinstall has completed, which is then
\* followed by the reload of the window.
C13_NightlyToStableReinstallsThenRestarts ==
    \A t \in Threads :
        LET r == inv[t] IN
        Path(r, Nightly, Stable)
        => /\ ~NetworkCall(r)
           /\ ~Occurred(r, "install")
           /\ Occurred(r, "accepted") => Before(r, "accepted", "reinstall")
           /\ Occurred(r, "restart") => Before(r, "reinstalled", "restart")
           /\ Occurred(r, "reinstalled")
                => r.pc \in {StoreReloadPc, "restarted", "killed"}

\* the user accepted, the stable build was reinstalled and the window reloaded
C13_Witness ==
    \E t \in Threads :
        /\ Path(inv[t], Nightly, Stable)
        /\ Occurred(inv[t], "accepted")
        /\ inv[t].pc = "restarted"
        /\ installedVersion = StableVersion

\* C14: Stable to Nightly runs the procedure without the guard, so a fetched
\* release is downloaded whatever its date; an invocation that gets through
\* without a failure ends in a restart, and at that restart the persisted
\* release date is the fetched one.
C14_StableToNightlyEndsWithFetchedDate ==
    /\ [](\A t \in Threads :
            Path(inv[t], Stable, Nightly)
            => /\ ~inv[t].guard
               /\ Occurred(inv[t], "fetched") => Occurred(inv[t], "download")
               /\ (Occurred(inv[t], "fetch") /\ inv[t].pc \in Terminal
                     /\ inv[t].failed = NullStr)
                    => inv[t].pc \in {"restarted", "killed"})
    /\ [][\A t \in Threads :
            (Path(inv[t], Stable, Nightly) /\ inv[t].pc = "reload"
               /\ inv'[t].pc = "restarted")
            => DateStorageGet(globalState') = inv[t].rel]_vars

\* the invocation has just got past line 26
JustCleared(t) == Occurred(inv'[t], "cleared") /\ inv[t].pc = "clear_date"

\* C15: an invocation that finds the Stable build loaded (server source not
\* an explicit path) clears the persisted release date first: the clearing
\* is its first event, every prompt, network call and normal return comes
\* after the clearing has settled, and when it settles the store holds no
\* date, whatever the desired channel.  An invocation that finds a Nightly
\* build loaded never clears the date.
C15_StableClearsDateFirst ==
    /\ [](\A t \in Threads :
            LET r == inv[t] IN
            /\ (r.cur = Stable /\ Started(r) /\ ~Explicit(r))
               => /\ r.events[1] = "clear"
                  /\ Len(r.events) >= 2 => r.events[2] = "cleared"
                  /\ r.pc = "done" => Occurred(r, "cleared")
            /\ (r.cur = Nightly /\ Started(r)) => ~Occurred(r, "clear"))
    /\ [][\A t \in Threads : JustCleared(t) => globalState' = Null]_vars

\* a window reloaded after the reinstall of the stable build has cleared the
\* date that the reinstall left behind
C15_Witness ==
    \E t, u \in Threads :
        /\ Path(inv[u], Nightly, Stable)
        /\ inv[u].pc = "restarted"
        /\ inv[t].proc = inv[u].proc
        /\ inv[t].cur = Stable
        /\ Occurred(inv[t], "cleared")
        /\ globalState = Null

\* keys of the change events that belong to the requires-reload set
KeysRequiringReload ==
    { <<rootSection, "serverPath">>,
      <<rootSection, "cargoFeatures", "allFeatures">>,
      <<rootSection, "cargo-watch", "enable">>,
      <<rootSection, "highlighting", "semanticTokens">>,
      <<rootSection, "inlayHints", "typeHints">> }

\* C16: every run of the change handler re-reads the snapshot first, so the
\* snapshot is the host's settings in every state; it prompts for a reload
\* exactly when the changed key belongs to the requires-reload set; the
\* window restarts exactly when that prompt was answered "Reload now"; and
\* the run does nothing else.
C16_ReloadPromptIffRequiresReload ==
    /\ cfg = settings
    /\ \A t \in Threads : inv[t] = IdleInv
    /\ \A h \in Handlers :
         LET w == watch[h] IN
         w.pc # "idle"
         => /\ w.events[1] = "refresh"
            /\ Occurred(w, "prompt") <=> w.key \in KeysRequiringReload
            /\ Occurred(w, "restart")
                 <=> (Occurred(w, "prompt") /\ Occurred(w, "reload_now"))
            /\ w.events \in { <<"refresh">>,
                              <<"refresh", "prompt">>,
                              <<"refresh", "prompt", "dismissed">>,
                              <<"refresh", "prompt", "reload_now", "restart">> }
            /\ w.events = <<"refresh">> => w.pc = "done"
            /\ Occurred(w, "dismissed") => w.pc = "done"
            /\ Occurred(w, "restart") <=> w.pc = "restarted"

\* a change of an inlay-hint option was answered with "Reload now" while a
\* change of an update setting went by without a prompt
C16_Witness ==
    \E h, g \in Handlers :
        /\ watch[h].key = <<rootSection, "inlayHints", "typeHints">>
        /\ watch[h].pc = "restarted"
        /\ watch[g].key = <<rootSection, "updates", "channel">>
        /\ watch[g].pc = "done"

\* UTC calendar day of an instant
UtcDay(x) == x \div MsPerDay

\* C17 as stated: the result depends on the UTC calendar dates alone, 0 for
\* two instants on the same UTC date and 24 for instants one UTC date apart.
C17_UtcCalendarDays ==
    calc.result # Null
    => /\ UtcDay(calc.a) = UtcDay(calc.b) => calc.result = 0
       /\ UtcDay(calc.a) = UtcDay(calc.b) + 1 => calc.result = 24

\* C17: the result depends on the calendar dates the local clock shows,
\* whatever the times of day and the zone: 24 hours for every day from the
\* second date to the first, so 0 on the same local date, 24 when the first
\* instant is one local date later and -24 when it is one earlier.
C17_LocalCalendarDays ==
    calc.result # Null => calc.result = 24 * (calc.dayA - calc.dayB)

\* two instants on one UTC date and on different local dates
C17_Witness ==
    /\ calc.result = 24
    /\ UtcDay(calc.a) = UtcDay(calc.b)
    /\ tz # 0

\* the steps of tryDownloadNightlyExtension, each as issued and as settled
ProcedureSteps ==
    <<"fetch", "fetched", "download", "downloaded", "install", "installed",
      "write", "written", "unlink", "unlinked", "reload", "restart">>

\* C18: within one run of the procedure the steps come in the order fetch,
\* guard, download, install, write of the date, deletion of the file,
\* restart, none without the ones before it; and the procedure restarts the
\* window only in a state where the install has completed, the file is
\* deleted and the persisted release date is the fetched one.
C18_OrderedStepsAndRestartState ==
    /\ [](\A t \in Threads :
            LET r == inv[t] IN
            Occurred(r, "fetch")
            => /\ \A i, j \in 1..Len(ProcedureSteps) :
                    (i < j /\ Occurred(r, ProcedureSteps[j]))
                    => Before(r, ProcedureSteps[i], ProcedureSteps[j])
               /\ \A e \in {"assert_failed", "info_message"} :
                    Occurred(r, e)
                    => Before(r, "fetched", e) /\ ~Occurred(r, "download"))
    /\ [][\A t \in Threads :
            (inv[t].pc = "reload" /\ inv'[t].pc = "restarted")
            => /\ Occurred(inv[t], "installed")
               /\ Occurred(inv[t], "unlinked")
               /\ DateStorageGet(globalState') = inv[t].rel]_vars

\* the fetch of t settles in this step, with t in the staleness path and the
\* persisted date no longer the one t read at line 45
GuardRunsAfterForeignWrite(t) ==
    /\ inv[t].pc = "fetch"
    /\ inv'[t].pc # "fetch"
    /\ inv[t].guard
    /\ DateStorageGet(globalState) # inv[t].date0

\* C19: when the persisted release date has been rewritten between an
\* invocation's read of it (line 45) and the run of its guard, the guard
\* stops the invocation: it ends there, with no download, install, write or
\* restart.
C19_GuardStopsTheSecondWindow ==
    [][\A t \in Threads :
         GuardRunsAfterForeignWrite(t)
         => /\ inv'[t].pc \in Terminal
            /\ ~Occurred(inv'[t], "download")
            /\ ~Occurred(inv'[t], "install")
            /\ ~Occurred(inv'[t], "write")
            /\ ~Occurred(inv'[t], "restart")
            /\ installedVersion' = installedVersion
            /\ globalState' = globalState]_vars

\* two windows read the same date; one has written a new one and the guard
\* of the other has stopped it
C19_Witness ==
    \E t, u \in Threads :
        /\ inv[t].proc # inv[u].proc
        /\ Path(inv[t], Nightly, Nightly) /\ Path(inv[u], Nightly, Nightly)
        /\ Timed(inv[t]) /\ inv[t].date0 = inv[u].date0
        /\ Occurred(inv[u], "written")
        /\ Occurred(inv[t], "assert_failed")
        /\ ~Occurred(inv[t], "download")
        /\ inv[t].pc = "done"

\* the invocation of t comes, in this step, to one of the three places where
\* the user is to be asked: Nightly to Stable and the stale Nightly to
\* Nightly at its call, Stable to Nightly once line 26 has settled
ComesToAsk(t) ==
    LET r == inv'[t] IN
    \/ /\ inv[t].pc \in Terminal /\ r # inv[t]
       /\ \/ Path(r, Nightly, Stable)
          \/ /\ Path(r, Nightly, Nightly) /\ Timed(r)
             /\ hoursSinceLastUpdate(r.date0, r.now, tz)
                  >= HEURISTIC_NIGHTLY_RELEASE_PERIOD_IN_HOURS
    \/ JustCleared(t) /\ Path(r, Stable, Nightly)

Acts(r) ==
    \/ Occurred(r, "reinstall")
    \/ Occurred(r, "fetch")
    \/ Occurred(r, "download")
    \/ Occurred(r, "install")

\* C20: with askBeforeDownload off an invocation that comes to ask shows no
\* prompt and goes on as after "Download now" (the reinstall is started, or
\* the procedure is entered or turns the call away as re-entrant); with it
\* on the prompt is shown and nothing is started.  An answer is always the
\* answer to a prompt of the same invocation, and an invocation that has
\* shown its prompt reinstalls, fetches, downloads or installs only after
\* that prompt was answered "Download now".
C20_AskBeforeDownloadGatesEveryPath ==
    /\ [](\A t \in Threads :
            LET r == inv[t] IN
            /\ \A e \in {"accepted", "declined"} :
                 Occurred(r, e) => Before(r, "prompt", e)
            /\ \A e \in {"reinstall", "fetch", "download", "install"} :
                 (Occurred(r, "prompt") /\ Occurred(r, e))
                 => Before(r, "accepted", e))
    /\ [][\A t \in Threads :
            ComesToAsk(t)
            => IF cfg.askBeforeDownload
               THEN /\ inv'[t].pc \in AskPcs
                    /\ Last(inv'[t].events) = "prompt"
                    /\ ~Acts(inv'[t])
               ELSE /\ ~Occurred(inv'[t], "prompt")
                    /\ inv'[t].pc \notin AskPcs
                    /\ IF inv'[t].des = Stable
                       THEN Last(inv'[t].events) = "reinstall"
                       ELSE Last(inv'[t].events) \in {"fetch", "rejected"}]_vars

\* one invocation went on to the download without a prompt, the setting being
\* off; another showed its prompt and was stopped by the answer
C20_Witness ==
    \E t, u \in Threads :
        /\ ~Occurred(inv[t], "prompt")
        /\ Occurred(inv[t], "downloaded")
        /\ Occurred(inv[u], "prompt")
        /\ Occurred(inv[u], "declined")
        /\ ~Acts(inv[u])

====
